---- MODULE Spec2Model ----
(***************************************************************************)
(* pubscan: two programs of the repository.                                *)
(*   variant "ext": cmd/main.go     (three sections, getLatestBranch,      *)
(*                                   --min filter, fixed pool of 5)        *)
(*   variant "min": unnamed/part_000 (collectDependencies, flat map,       *)
(*                                   --limit pool)                         *)
(* One goroutine per entry of the repository list; the semaphore channel   *)
(* sem, the mutex mu and the WaitGroup wg are the shared objects.          *)
(***************************************************************************)
EXTENDS Integers, Sequences, FiniteSets, TLC

VARIABLES variant, repos, limit, config, mainpc, idx, exitCode,
          sem, mu, wg, pc, branch, content, ps, deps,
          stats, allDeps, minUsage, finalStats, outFile, calls, logged,
          brResp, brOut

vars == <<variant, repos, limit, config, mainpc, idx, exitCode,
          sem, mu, wg, pc, branch, content, ps, deps,
          stats, allDeps, minUsage, finalStats, outFile, calls, logged,
          brResp, brOut>>

\* ------------------------------------------------------------ bounds
MaxRepos == 2
MaxLimit == 1
MaxMin == 2
MaxBranches == 3
MaxDate == 2
MaxEntryLen == 3

\* cmd/main.go: sem := make(chan struct{}, 5)
PoolSize == 5

\* ------------------------------------------------------------ data
Packages == {"a", "b", "c"}
Sections == {"dependencies", "dev_dependencies", "dependency_overrides"}

\* Lines of the repos file, as sequences of characters: two repositories and a
\* line without a slash.
Entries ==
    { <<"a", "/", "b">>, <<"c", "/", "d">>, <<"a", "b">> }

\* The empty Go map / nil map.
EmptyMap == [k \in {} |-> 0]

IncrSet(m, k) == [x \in DOMAIN m \cup {k} |-> IF x = k THEN 1 ELSE m[x]]

\* m[k]++ on a Go map: a missing key reads as 0.
Incr(m, k) ==
    IF k \in DOMAIN m
    THEN [m EXCEPT ![k] = @ + 1]
    ELSE [x \in DOMAIN m \cup {k} |-> IF x = k THEN 1 ELSE m[x]]

\* for k := range keys { m[k]++ }: the order of a range over a map is
\* unspecified; the increments commute, so one order stands for all.
RECURSIVE IncrAll(_, _)
IncrAll(m, keys) ==
    IF keys = {} THEN m
    ELSE LET k == CHOOSE x \in keys : TRUE
         IN  IncrAll(Incr(m, k), keys \ {k})

\* for _, d := range deps { m[d]++ } over a slice.
RECURSIVE IncrSeq(_, _)
IncrSeq(m, s) ==
    IF s = <<>> THEN m ELSE IncrSeq(Incr(m, Head(s)), Tail(s))

\* All arrangements of the elements of S.
RECURSIVE Orders(_)
Orders(S) ==
    IF S = {} THEN { <<>> }
    ELSE UNION { { <<k>> \o t : t \in Orders(S \ {k}) } : k \in S }

\* strings.Split(full, "/"): the parts between the separators; n separators
\* give n+1 parts, empty parts included.
RECURSIVE Split(_)
Split(full) ==
    IF \A n \in 1..Len(full) : full[n] # "/"
    THEN << full >>
    ELSE LET n == CHOOSE n \in 1..Len(full) :
                     /\ full[n] = "/"
                     /\ \A m \in 1..(n - 1) : full[m] # "/"
         IN  << SubSeq(full, 1, n - 1) >> \o Split(SubSeq(full, n + 1, Len(full)))

\* splitRepo (part_000) and the inline check of cmd/main.go: len(parts) != 2.
splitRepo(full) ==
    LET parts == Split(full)
    IN  IF Len(parts) # 2
        THEN [owner |-> <<>>, repo |-> <<>>, ok |-> FALSE]
        ELSE [owner |-> parts[1], repo |-> parts[2], ok |-> TRUE]

\* ------------------------------------------------------------ YAML
\* A YAML document as the decoder sees it: well-formed or not, and for each
\* top-level key what kind of node it holds.
\*   absent / null : the struct field stays nil
\*   map           : a mapping with string keys
\*   seq           : a node that does not fit map[string]interface{}
Absent == [kind |-> "absent", keys |-> {}]
Null == [kind |-> "null", keys |-> {}]
Map(K) == [kind |-> "map", keys |-> K]
Bad == [kind |-> "seq", keys |-> {}]

Doc(d, v, o) ==
    [syntax |-> TRUE, dependencies |-> d, dev_dependencies |-> v,
     dependency_overrides |-> o]

\* The manifests the mocked hosting API serves: two that decode, with a package
\* in common, and one whose first section is of the wrong type.
Docs ==
    { Doc(Map({"a", "b"}), Absent, Map({"c"})),
      Doc(Map({"b", "c"}), Map({"b"}), Null),
      Doc(Bad, Map({"a"}), Absent) }

\* yaml.Unmarshal into one map[string]interface{} field.
Field(node) == IF node.kind = "map" THEN node.keys ELSE {}

\* yaml.Unmarshal(data, &p) into the struct with the given fields: a syntax error
\* decodes nothing; a node of the wrong type is skipped, decoding goes on with the
\* other fields, and a *yaml.TypeError is returned at the end.
Unmarshal(doc, fields) ==
    IF ~doc.syntax
    THEN [err |-> TRUE, val |-> [f \in fields |-> {}]]
    ELSE [err |-> \E f \in fields : doc[f].kind = "seq",
          val |-> [f \in fields |-> Field(doc[f])]]

EmptyPubspec == [f \in Sections |-> {}]

\* parsePubspec (cmd/main.go): the error of yaml.Unmarshal is dropped.
parsePubspec(doc) == Unmarshal(doc, Sections).val

MinFields == {"dependencies", "dev_dependencies"}

\* for k := range m { deps = append(deps, k) }: the keys of a map as a slice.
\* The order of the range is unspecified; the slice is only ranged over to
\* increment counters, which commutes, so one order stands for all.
RECURSIVE Appended(_)
Appended(S) ==
    IF S = {} THEN <<>>
    ELSE LET k == CHOOSE x \in S : TRUE
         IN  <<k>> \o Appended(S \ {k})

\* extractDependencies (part_000): the keys of dependencies, then the keys of
\* dev_dependencies, appended to one slice.
extractDependencies(doc) ==
    LET r == Unmarshal(doc, MinFields)
    IN  IF r.err
        THEN [err |-> TRUE, deps |-> <<>>]
        ELSE [err |-> FALSE,
              deps |-> Appended(r.val["dependencies"])
                         \o Appended(r.val["dev_dependencies"])]

\* ------------------------------------------------------------ hosting API
\* "list branches": the transport may fail, the status may not be 200, the body
\* may not be a JSON array of branches; the branches come in the API's order.
Name == <<"main", "dev", "old", "tmp", "wip">>

BranchLists ==
    UNION { { [k \in 1..n |-> [name |-> Name[k], date |-> d[k]]] :
                d \in [1..n -> 1..MaxDate] } : n \in 0..MaxBranches }

BranchResponses ==
    [err : BOOLEAN, status : {200, 404}, json : BOOLEAN, branches : BranchLists]

\* What the mocked API answers to the tasks' "list branches" requests: every
\* failure, and the lists of at most one branch.
TaskBranchResponses == { x \in BranchResponses : Len(x.branches) <= 1 }

NoResponse == [err |-> TRUE, status |-> 404, json |-> FALSE, branches |-> <<>>]

Before(a, b) == a.date < b.date

\* a.After(b) on the author dates.
After(a, b) == a.date > b.date

\* sort.Slice(branches, less): every arrangement of the slice in which no element
\* is less than one before it.  sort.Slice is documented as not stable: elements
\* that compare equal may end in any order (the library keeps their order only
\* for short slices, which is no part of its contract).
SortSlice(s) ==
    { [k \in 1..Len(s) |-> s[o[k]]] : o \in
        { o \in Orders(1..Len(s)) :
            \A x, y \in 1..Len(s) : x < y => ~After(s[o[y]], s[o[x]]) } }

Failure == [ok |-> FALSE, name |-> ""]
NotCalled == [ok |-> FALSE, name |-> "?"]

\* getLatestBranch (cmd/main.go): the results the call can return.
getLatestBranch(resp) ==
    IF resp.err \/ resp.status # 200 \/ ~resp.json \/ Len(resp.branches) = 0
    THEN { Failure }
    ELSE { [ok |-> TRUE, name |-> b[1].name] : b \in SortSlice(resp.branches) }

\* "get file contents": what getPubspec / GetContents can come back with.
FetchFailures == {"transport", "404", "500", "json", "base64"}

Request(api, r, ref) == [api |-> api, owner |-> r.owner, repo |-> r.repo, ref |-> ref]

\* ------------------------------------------------------------ state
Tasks == 1..Len(repos)

RepoLists == UNION { [1..n -> Entries] : n \in 0..MaxRepos }

EmptyStats == [f \in Sections |-> EmptyMap]

\* What the program finds when it looks at its flags, the .env file and the
\* repos file: all in order, --help given, a required flag missing, no
\* GITHUB_TOKEN, or a repos file that cannot be read.
Configs == {"ok", "help", "flags", "token", "reposfile"}

ConfigErrors == {"flags", "token", "reposfile"}

Init ==
    /\ variant \in {"ext", "min"}
    /\ repos \in RepoLists
    /\ limit \in IF variant = "ext" THEN {PoolSize} ELSE 0..MaxLimit
    /\ config \in Configs
    /\ mainpc = "config"
    /\ idx = 1
    /\ exitCode = 0
    /\ sem = 0
    /\ mu = 0
    /\ wg = 0
    /\ pc = [i \in Tasks |-> "none"]
    /\ branch = [i \in Tasks |-> ""]
    /\ content = [i \in Tasks |-> <<>>]
    /\ ps = [i \in Tasks |-> EmptyPubspec]
    /\ deps = [i \in Tasks |-> <<>>]
    /\ stats = EmptyStats
    /\ allDeps = EmptyMap
    /\ minUsage = 1
    /\ finalStats = EmptyStats
    /\ outFile = <<>>
    /\ calls = [i \in Tasks |-> <<>>]
    /\ brResp = NoResponse
    /\ brOut = NotCalled
    /\ logged = [i \in Tasks |-> ""]

mainVars == <<mainpc, idx, exitCode, minUsage, finalStats, outFile>>
taskLocals == <<branch, content, ps, deps, calls, logged>>
counters == <<stats, allDeps>>
inputs == <<variant, repos, limit, config>>
pure == <<brResp, brOut>>

\* ------------------------------------------------------------ main
\* flag checks, token, repos file (cmd/main.go 126-161, part_000 34-56).
\* cmd/main.go prints and returns, also when the list is empty; part_000 calls
\* os.Exit(1) / log.Fatal.
CheckConfig ==
    /\ mainpc = "config"
    /\ IF config = "ok" /\ ~(variant = "ext" /\ Len(repos) = 0)
       THEN /\ mainpc' = IF Len(repos) = 0 THEN "wait" ELSE "loop"
            /\ UNCHANGED exitCode
       ELSE /\ mainpc' = "exit"
            /\ exitCode' = IF variant = "min" /\ config \in ConfigErrors
                           THEN 1 ELSE 0
    /\ UNCHANGED <<idx, minUsage, finalStats, outFile>>
    /\ UNCHANGED <<inputs, sem, mu, wg, pc, taskLocals, counters, pure>>

LaunchValidOnly ==
    /\ mainpc = "loop"
    /\ idx <= Len(repos)
    /\ IF splitRepo(repos[idx]).ok
       THEN /\ wg' = wg + 1
            /\ pc' = [pc EXCEPT ![idx] = "acquire"]
       ELSE UNCHANGED <<wg, pc>>
    /\ idx' = idx + 1
    /\ mainpc' = IF idx = Len(repos) THEN "wait" ELSE "loop"
    /\ UNCHANGED <<exitCode, minUsage, finalStats, outFile>>
    /\ UNCHANGED <<inputs, sem, mu, taskLocals, counters, pure>>

\* for _, full := range repos { wg.Add(1); go func(...){...}(full) }
Launch ==
    /\ mainpc = "loop"
    /\ idx <= Len(repos)
    /\ wg' = wg + 1
    /\ pc' = [pc EXCEPT ![idx] = "acquire"]
    /\ idx' = idx + 1
    /\ mainpc' = IF idx = Len(repos) THEN "wait" ELSE "loop"
    /\ UNCHANGED <<exitCode, minUsage, finalStats, outFile>>
    /\ UNCHANGED <<inputs, sem, mu, taskLocals, counters, pure>>

WaitNoBarrier ==
    /\ mainpc = "wait"
    /\ mainpc' = IF variant = "ext" THEN "filter" ELSE "write"
    /\ UNCHANGED <<idx, exitCode, minUsage, finalStats, outFile>>
    /\ UNCHANGED <<inputs, sem, mu, wg, pc, taskLocals, counters, pure>>

\* wg.Wait(): returns when the counter is zero.
Wait ==
    /\ mainpc = "wait"
    /\ wg = 0
    /\ mainpc' = IF variant = "ext" THEN "filter" ELSE "write"
    /\ UNCHANGED <<idx, exitCode, minUsage, finalStats, outFile>>
    /\ UNCHANGED <<inputs, sem, mu, wg, pc, taskLocals, counters, pure>>

Entry(pkg, count) ==
    [count |-> count, url |-> <<"https://pub.dev/packages/", pkg>>]

FilterSectionStrict(m, min) ==
    [p \in { q \in DOMAIN m : m[q] > min } |-> Entry(p, m[p])]

\* for pkg, count := range m { if count >= *minUsage { final[pkg] = {...} } }
FilterSection(m, min) ==
    [p \in { q \in DOMAIN m : m[q] >= min } |-> Entry(p, m[p])]

\* cmd/main.go 224-254.  --min is read only here; its value is drawn here.
Filter ==
    /\ mainpc = "filter"
    /\ \E m \in 0..MaxMin :
         /\ minUsage' = m
         /\ finalStats' = [f \in Sections |-> FilterSection(stats[f], m)]
    /\ mainpc' = "write"
    /\ UNCHANGED <<idx, exitCode, outFile>>
    /\ UNCHANGED <<inputs, sem, mu, wg, pc, taskLocals, counters, pure>>

\* json.MarshalIndent + os.WriteFile.  A failed write: cmd/main.go prints and
\* returns, part_000 calls log.Fatalf.
Write ==
    /\ mainpc = "write"
    /\ \E ok \in BOOLEAN :
         /\ outFile' = IF ~ok THEN <<>>
                       ELSE IF variant = "ext" THEN << finalStats >> ELSE << allDeps >>
         /\ exitCode' = IF ~ok /\ variant = "min" THEN 1 ELSE 0
    /\ mainpc' = "exit"
    /\ UNCHANGED <<idx, minUsage, finalStats>>
    /\ UNCHANGED <<inputs, sem, mu, wg, pc, taskLocals, counters, pure>>

\* ------------------------------------------------------------ tasks
shared == <<sem, mu, wg>>

TryAcquire(i) ==
    /\ pc[i] = "acquire"
    /\ sem' = sem + 1
    /\ pc' = [pc EXCEPT ![i] = "split"]
    /\ UNCHANGED <<inputs, mainVars, mu, wg, taskLocals, counters, pure>>

AcquireOffByOne(i) ==
    /\ pc[i] = "acquire"
    /\ sem <= limit
    /\ sem' = sem + 1
    /\ pc' = [pc EXCEPT ![i] = "split"]
    /\ UNCHANGED <<inputs, mainVars, mu, wg, taskLocals, counters, pure>>

\* sem <- struct{}{}: blocks while the channel holds cap(sem) tokens.
Acquire(i) ==
    /\ pc[i] = "acquire"
    /\ sem < limit
    /\ sem' = sem + 1
    /\ pc' = [pc EXCEPT ![i] = "split"]
    /\ UNCHANGED <<inputs, mainVars, mu, wg, taskLocals, counters, pure>>

SplitStepFatal(i) ==
    /\ pc[i] = "split"
    /\ IF splitRepo(repos[i]).ok
       THEN /\ pc' = [pc EXCEPT ![i] = IF variant = "ext" THEN "branch" ELSE "contents"]
            /\ UNCHANGED <<logged, mainpc, exitCode>>
       ELSE /\ logged' = [logged EXCEPT ![i] = "invalid"]
            /\ mainpc' = "exit"
            /\ exitCode' = 1
            /\ UNCHANGED pc
    /\ UNCHANGED <<inputs, idx, minUsage, finalStats, outFile, shared, branch, content,
                   ps, deps, calls, counters, pure>>

SplitStepLeak(i) ==
    /\ pc[i] = "split"
    /\ IF splitRepo(repos[i]).ok
       THEN /\ pc' = [pc EXCEPT ![i] = IF variant = "ext" THEN "branch" ELSE "contents"]
            /\ UNCHANGED logged
       ELSE /\ pc' = [pc EXCEPT ![i] = "wgdone"]
            /\ logged' = [logged EXCEPT ![i] = "invalid"]
    /\ UNCHANGED <<inputs, mainVars, shared, branch, content, ps, deps, calls,
                   counters, pure>>

\* strings.Split(full, "/"), len(parts) != 2 (cmd/main.go 188-193);
\* splitRepo(r) (part_000 135-139).
SplitStep(i) ==
    /\ pc[i] = "split"
    /\ IF splitRepo(repos[i]).ok
       THEN /\ pc' = [pc EXCEPT ![i] = IF variant = "ext" THEN "branch" ELSE "contents"]
            /\ UNCHANGED logged
       ELSE /\ pc' = [pc EXCEPT ![i] = "release"]
            /\ logged' = [logged EXCEPT ![i] = "invalid"]
    /\ UNCHANGED <<inputs, mainVars, shared, branch, content, ps, deps, calls,
                   counters, pure>>

\* branch, err := getLatestBranch(ctx, client, owner, repo, token)
GetLatestBranch(i) ==
    /\ variant = "ext"
    /\ pc[i] = "branch"
    /\ calls' = [calls EXCEPT ![i] = Append(@, Request("branches", splitRepo(repos[i]), ""))]
    /\ \E resp \in TaskBranchResponses : \E r \in getLatestBranch(resp) :
         IF r.ok
         THEN /\ branch' = [branch EXCEPT ![i] = r.name]
              /\ pc' = [pc EXCEPT ![i] = "pubspec"]
              /\ UNCHANGED logged
         ELSE /\ pc' = [pc EXCEPT ![i] = "release"]
              /\ logged' = [logged EXCEPT ![i] = "branch"]
              /\ UNCHANGED branch
    /\ UNCHANGED <<inputs, mainVars, shared, content, ps, deps, counters, pure>>

\* content, err := getPubspec(ctx, client, owner, repo, branch, token): the
\* request names the ref; transport error, non-200 status, a body that is not
\* JSON and content that is not base64 all return an error.
GetPubspec(i) ==
    /\ variant = "ext"
    /\ pc[i] = "pubspec"
    /\ calls' = [calls EXCEPT
                   ![i] = Append(@, Request("contents", splitRepo(repos[i]), branch[i]))]
    /\ \/ \E f \in FetchFailures :
            /\ pc' = [pc EXCEPT ![i] = "release"]
            /\ logged' = [logged EXCEPT ![i] = "fetch"]
            /\ UNCHANGED content
       \/ \E d \in Docs :
            /\ content' = [content EXCEPT ![i] = << d >>]
            /\ pc' = [pc EXCEPT ![i] = "parse"]
            /\ UNCHANGED logged
    /\ UNCHANGED <<inputs, mainVars, shared, branch, ps, deps, counters, pure>>

\* ps := parsePubspec(content)
ParsePubspec(i) ==
    /\ variant = "ext"
    /\ pc[i] = "parse"
    /\ ps' = [ps EXCEPT ![i] = parsePubspec(content[i][1])]
    /\ pc' = [pc EXCEPT ![i] = "lock"]
    /\ UNCHANGED <<inputs, mainVars, shared, branch, content, deps, calls, logged,
                   counters, pure>>

\* client.Repositories.GetContents(ctx, owner, repo, "pubspec.yaml", nil)
GetContents(i) ==
    /\ variant = "min"
    /\ pc[i] = "contents"
    /\ calls' = [calls EXCEPT ![i] = Append(@, Request("contents", splitRepo(repos[i]), ""))]
    /\ \/ \E f \in FetchFailures \ {"base64"} :
            /\ pc' = [pc EXCEPT ![i] = "release"]
            /\ logged' = [logged EXCEPT ![i] = "fetch"]
            /\ UNCHANGED content
       \/ \E d \in Docs :
            /\ content' = [content EXCEPT ![i] = << d >>]
            /\ pc' = [pc EXCEPT ![i] = "getcontent"]
            /\ UNCHANGED logged
    /\ UNCHANGED <<inputs, mainVars, shared, branch, ps, deps, counters, pure>>

\* data, err := content.GetContent(): the decoding of the payload may fail.
GetContent(i) ==
    /\ variant = "min"
    /\ pc[i] = "getcontent"
    /\ \E ok \in BOOLEAN :
         IF ok
         THEN /\ pc' = [pc EXCEPT ![i] = "extract"]
              /\ UNCHANGED logged
         ELSE /\ pc' = [pc EXCEPT ![i] = "release"]
              /\ logged' = [logged EXCEPT ![i] = "read"]
    /\ UNCHANGED <<inputs, mainVars, shared, branch, content, ps, deps, calls,
                   counters, pure>>

\* deps, err := extractDependencies([]byte(data))
Extract(i) ==
    /\ variant = "min"
    /\ pc[i] = "extract"
    /\ LET r == extractDependencies(content[i][1])
       IN
         IF r.err
         THEN /\ pc' = [pc EXCEPT ![i] = "release"]
              /\ logged' = [logged EXCEPT ![i] = "parse"]
              /\ UNCHANGED deps
         ELSE /\ deps' = [deps EXCEPT ![i] = r.deps]
              /\ pc' = [pc EXCEPT ![i] = "lock"]
              /\ UNCHANGED logged
    /\ UNCHANGED <<inputs, mainVars, shared, branch, content, ps, calls,
                   counters, pure>>

LockNoWait(i) ==
    /\ pc[i] = "lock"
    /\ mu' = i
    /\ pc' = [pc EXCEPT ![i] = "merge"]
    /\ UNCHANGED <<inputs, mainVars, sem, wg, taskLocals, counters, pure>>

\* mu.Lock()
Lock(i) ==
    /\ pc[i] = "lock"
    /\ mu = 0
    /\ mu' = i
    /\ pc' = [pc EXCEPT ![i] = "merge"]
    /\ UNCHANGED <<inputs, mainVars, sem, wg, taskLocals, counters, pure>>

MergeStatsShared(i) ==
    /\ variant = "ext"
    /\ pc[i] = "merge"
    /\ stats' = [f \in Sections |->
                    IncrAll(stats[f], UNION { ps[i][g] : g \in Sections })]
    /\ pc' = [pc EXCEPT ![i] = "unlock"]
    /\ UNCHANGED <<inputs, mainVars, shared, taskLocals, allDeps, pure>>

\* the three range loops of cmd/main.go 209-217
MergeStats(i) ==
    /\ variant = "ext"
    /\ pc[i] = "merge"
    /\ stats' = [f \in Sections |-> IncrAll(stats[f], ps[i][f])]
    /\ pc' = [pc EXCEPT ![i] = "unlock"]
    /\ UNCHANGED <<inputs, mainVars, shared, taskLocals, allDeps, pure>>

\* for _, d := range deps { allDeps[d]++ } (part_000 160-162)
MergeAllDeps(i) ==
    /\ variant = "min"
    /\ pc[i] = "merge"
    /\ allDeps' = IncrSeq(allDeps, deps[i])
    /\ pc' = [pc EXCEPT ![i] = "unlock"]
    /\ UNCHANGED <<inputs, mainVars, shared, taskLocals, stats, pure>>

\* mu.Unlock()
Unlock(i) ==
    /\ pc[i] = "unlock"
    /\ mu' = 0
    /\ pc' = [pc EXCEPT ![i] = IF variant = "ext" THEN "release" ELSE "sleep"]
    /\ UNCHANGED <<inputs, mainVars, sem, wg, taskLocals, counters, pure>>

\* time.Sleep(200 * time.Millisecond)
Sleep(i) ==
    /\ variant = "min"
    /\ pc[i] = "sleep"
    /\ pc' = [pc EXCEPT ![i] = "release"]
    /\ UNCHANGED <<inputs, mainVars, shared, taskLocals, counters, pure>>

\* defer func() { <-sem }(): runs on every return of the goroutine.
Release(i) ==
    /\ pc[i] = "release"
    /\ sem > 0
    /\ sem' = sem - 1
    /\ pc' = [pc EXCEPT ![i] = "wgdone"]
    /\ UNCHANGED <<inputs, mainVars, mu, wg, taskLocals, counters, pure>>

\* defer wg.Done(): the first defer, so the last to run.
Done(i) ==
    /\ pc[i] = "wgdone"
    /\ wg' = wg - 1
    /\ pc' = [pc EXCEPT ![i] = "done"]
    /\ UNCHANGED <<inputs, mainVars, sem, mu, taskLocals, counters, pure>>

Next ==
    \/ CheckConfig
    \/ Launch
    \/ Wait
    \/ Filter
    \/ Write
    \/ \E i \in Tasks : Acquire(i)
    \/ \E i \in Tasks : SplitStep(i)
    \/ \E i \in Tasks : GetLatestBranch(i)
    \/ \E i \in Tasks : GetPubspec(i)
    \/ \E i \in Tasks : ParsePubspec(i)
    \/ \E i \in Tasks : GetContents(i)
    \/ \E i \in Tasks : GetContent(i)
    \/ \E i \in Tasks : Extract(i)
    \/ \E i \in Tasks : Lock(i)
    \/ \E i \in Tasks : MergeStats(i)
    \/ \E i \in Tasks : MergeAllDeps(i)
    \/ \E i \in Tasks : Unlock(i)
    \/ \E i \in Tasks : Sleep(i)
    \/ \E i \in Tasks : Release(i)
    \/ \E i \in Tasks : Done(i)

Spec == Init /\ [][Next]_vars

\* ------------------------------------------------------------ scheduling
\* The steps of the main goroutine and of the goroutine of entry i.
MainNext == CheckConfig \/ Launch \/ Wait \/ Filter \/ Write

TaskNext(i) ==
    \/ Acquire(i) \/ SplitStep(i)
    \/ GetLatestBranch(i) \/ GetPubspec(i) \/ ParsePubspec(i)
    \/ GetContents(i) \/ GetContent(i) \/ Extract(i)
    \/ Lock(i) \/ MergeStats(i) \/ MergeAllDeps(i) \/ Unlock(i)
    \/ Sleep(i) \/ Release(i) \/ Done(i)

\* The Go scheduler runs every goroutine that stays runnable, and every API call
\* and the sleep return: a goroutine whose next step stays possible takes it.
Fairness ==
    /\ WF_vars(MainNext)
    /\ \A i \in 1..MaxRepos : WF_vars(i \in Tasks /\ TaskNext(i))

FairSpec == Spec /\ Fairness

\* ------------------------------------------------------------ one line, any shape
\* The same program on a repos file of one line, the line being any string of
\* at most MaxEntryLen characters over a letter and the separator: no slash,
\* one slash with an empty owner or an empty name, several slashes.
EntryChars == {"a", "/"}

AnyEntries == UNION { [1..n -> EntryChars] : n \in 1..MaxEntryLen }

InitEntry ==
    /\ variant \in {"ext", "min"}
    /\ repos \in { << e >> : e \in AnyEntries }
    /\ limit \in IF variant = "ext" THEN {PoolSize} ELSE 0..MaxLimit
    /\ config \in Configs
    /\ mainpc = "config"
    /\ idx = 1
    /\ exitCode = 0
    /\ sem = 0
    /\ mu = 0
    /\ wg = 0
    /\ pc = [i \in Tasks |-> "none"]
    /\ branch = [i \in Tasks |-> ""]
    /\ content = [i \in Tasks |-> <<>>]
    /\ ps = [i \in Tasks |-> EmptyPubspec]
    /\ deps = [i \in Tasks |-> <<>>]
    /\ stats = EmptyStats
    /\ allDeps = EmptyMap
    /\ minUsage = 1
    /\ finalStats = EmptyStats
    /\ outFile = <<>>
    /\ calls = [i \in Tasks |-> <<>>]
    /\ brResp = NoResponse
    /\ brOut = NotCalled
    /\ logged = [i \in Tasks |-> ""]

SpecEntry == InitEntry /\ [][Next]_vars

\* ------------------------------------------------------------ getLatestBranch alone
\* One call of getLatestBranch on any response of the "list branches" endpoint.
InitBranch ==
    /\ brResp \in BranchResponses
    /\ brOut = NotCalled
    /\ variant = "ext"
    /\ repos = <<>>
    /\ limit = PoolSize
    /\ config = "ok"
    /\ mainpc = "exit"
    /\ idx = 1
    /\ exitCode = 0
    /\ sem = 0
    /\ mu = 0
    /\ wg = 0
    /\ pc = <<>>
    /\ branch = <<>>
    /\ content = <<>>
    /\ ps = <<>>
    /\ deps = <<>>
    /\ stats = EmptyStats
    /\ allDeps = EmptyMap
    /\ minUsage = 1
    /\ finalStats = EmptyStats
    /\ outFile = <<>>
    /\ calls = <<>>
    /\ logged = <<>>

CallGetLatestBranch ==
    /\ brOut = NotCalled
    /\ brOut' \in getLatestBranch(brResp)
    /\ UNCHANGED <<brResp, inputs, mainVars, shared, pc, taskLocals, counters>>

NextBranch == CallGetLatestBranch

SpecBranch == InitBranch /\ [][NextBranch]_vars

\* ------------------------------------------------------------ properties
\* The value of a counter map at a package; a missing key counts 0.
Get(m, p) == IF p \in DOMAIN m THEN m[p] ELSE 0

\* The manifest declares package p in section s.
Declares(doc, s, p) == doc.syntax /\ doc[s].kind = "map" /\ p \in doc[s].keys

Keys(doc, s) == { p \in Packages : Declares(doc, s, p) }

\* Between acquiring and releasing the semaphore.
HoldsSlot(i) ==
    pc[i] \in {"split", "branch", "pubspec", "parse", "contents", "getcontent",
               "extract", "lock", "merge", "unlock", "sleep", "release"}

Holders == { i \in Tasks : HoldsSlot(i) }

Launched == { i \in Tasks : pc[i] # "none" }

\* The task has completed its merge step.
Merged(i) ==
    /\ logged[i] = ""
    /\ pc[i] \in {"unlock", "sleep", "release", "wgdone", "done"}

\* wg.Wait() has returned.
Returned ==
    \/ mainpc \in {"filter", "write"}
    \/ mainpc = "exit" /\ idx > Len(repos)

C2_DistinctRepositories ==
    (/\ variant = "ext"
     /\ Returned
     /\ \A j \in Tasks : Merged(j) => ~Unmarshal(content[j][1], Sections).err) =>
        \A s \in Sections : \A p \in Packages :
            Get(stats[s], p) =
                Cardinality({ repos[i] : i \in
                    { j \in Tasks : Merged(j) /\ Declares(content[j][1], s, p) } })

\* C3: in the flat report the value of a package is the number of repositories
\* (tasks) that use it: one repository that declares the package under both
\* dependencies and dev_dependencies counts once.
C3_FlatCountsRepositories ==
    (variant = "min" /\ Returned) =>
        \A p \in Packages :
            Get(allDeps, p) =
                Cardinality({ i \in Tasks :
                    /\ Merged(i)
                    /\ \E s \in MinFields : Declares(content[i][1], s, p) })

\* The tasks that failed: each failure return logs a line.
FailedTasks == { i \in Tasks : logged[i] # "" }

\* The aggregator run on the list without the failed entries, one entry after
\* the other: what each surviving manifest adds, in list order.
RECURSIVE StatsWithout(_, _)
StatsWithout(F, n) ==
    IF n = 0 THEN EmptyStats
    ELSE LET acc == StatsWithout(F, n - 1)
         IN  IF n \in F THEN acc
             ELSE [s \in Sections |-> IncrAll(acc[s], Keys(content[n][1], s))]

RECURSIVE AllDepsWithout(_, _)
AllDepsWithout(F, n) ==
    IF n = 0 THEN EmptyMap
    ELSE LET acc == AllDepsWithout(F, n - 1)
         IN  IF n \in F THEN acc
             ELSE IncrAll(IncrAll(acc, Keys(content[n][1], "dependencies")),
                          Keys(content[n][1], "dev_dependencies"))

\* C4: failure isolation.  When the process ends after the fan-out, every task
\* has run to its end, the counters are those of a run on the list without the
\* failed entries, and the exit status is 0 unless the final write failed.
C4_FailureIsolation ==
    (mainpc = "exit" /\ idx > Len(repos)) =>
        /\ \A i \in Tasks : pc[i] = "done"
        /\ stats = IF variant = "ext" THEN StatsWithout(FailedTasks, Len(repos))
                   ELSE EmptyStats
        /\ allDeps = IF variant = "min" THEN AllDepsWithout(FailedTasks, Len(repos))
                     ELSE EmptyMap
        /\ outFile # <<>> => exitCode = 0

\* One task failed, another contributed, and the report was written.
C4_Witness ==
    /\ mainpc = "exit"
    /\ outFile # <<>>
    /\ \E i, j \in Tasks :
         /\ logged[i] \in {"branch", "fetch", "read"}
         /\ logged[j] = ""
         /\ pc[j] = "done"
         /\ i < j
    /\ stats # EmptyStats \/ allDeps # EmptyMap

\* The YAML decoder returns an error for the document.
ParseFails(doc) == Unmarshal(doc, Sections).err

\* C5: a task whose manifest fails YAML parsing contributes nothing: the
\* counters are those of the tasks whose manifest parsed without error.
C5_ParseFailureCountsNothing ==
    Returned =>
        /\ variant = "ext" =>
             stats = StatsWithout({ i \in Tasks : ~Merged(i) \/ ParseFails(content[i][1]) },
                                  Len(repos))
        /\ variant = "min" =>
             allDeps = AllDepsWithout({ i \in Tasks : ~Merged(i) \/ ParseFails(content[i][1]) },
                                      Len(repos))

\* An entry of exactly two non-empty parts.
WellFormed(e) ==
    /\ Cardinality({ n \in 1..Len(e) : e[n] = "/" }) = 1
    /\ e[1] # "/"
    /\ e[Len(e)] # "/"

\* C6 as stated: only syntactically valid entries launch a task.
C6_OnlyValidEntriesLaunch ==
    \A i \in Tasks : pc[i] # "none" => WellFormed(repos[i])

\* An entry with exactly one slash: the entries the validation lets through.
OneSlash(e) == Cardinality({ n \in 1..Len(e) : e[n] = "/" }) = 1

\* C6 amended: after the launch loop every entry of the list, valid or not, has
\* launched a task; the task of an entry that fails validation (not exactly one
\* slash) takes a pool slot, issues no request and goes to its deferred release.
C6_EveryEntryLaunches ==
    /\ (mainpc \in {"wait", "filter", "write"}) => Cardinality(Launched) = Len(repos)
    /\ \A i \in Tasks : ~OneSlash(repos[i]) =>
         /\ calls[i] = <<>>
         /\ pc[i] \in {"none", "acquire", "split", "release", "wgdone", "done"}

\* The task of an entry without a slash has been rejected and still holds its
\* slot of the pool.
C6_Witness ==
    \E i \in Tasks : ~OneSlash(repos[i]) /\ pc[i] = "release" /\ sem >= 1

\* C7: barrier.  Once wg.Wait() has returned every launched task has completed,
\* so no task is left that could change a counter, and a written report is the
\* report of the final counters.
C7_Barrier ==
    Returned =>
        /\ \A i \in Tasks : pc[i] = "done"
        /\ wg = 0
        /\ mu = 0
        /\ outFile # <<>> =>
             outFile[1] = IF variant = "ext"
                          THEN [f \in Sections |-> FilterSection(stats[f], minUsage)]
                          ELSE allDeps

\* Two tasks have merged, wg.Wait() has returned and the report is written.
C7_Witness ==
    /\ Returned
    /\ Len(repos) >= 2
    /\ \A i \in Tasks : Merged(i)
    /\ outFile # <<>>

\* C8: order independence.  In every reachable state, whatever the interleaving,
\* the counters are a function of the set of tasks that have merged and of the
\* responses those tasks received.
C8_OrderIndependent ==
    /\ \A s \in Sections : \A p \in Packages :
         Get(stats[s], p) =
             Cardinality({ i \in Tasks :
                 variant = "ext" /\ Merged(i) /\ Declares(content[i][1], s, p) })
    /\ \A p \in Packages :
         Get(allDeps, p) =
             Cardinality({ <<i, s>> \in Tasks \X MinFields :
                 variant = "min" /\ Merged(i) /\ Declares(content[i][1], s, p) })

\* Two tasks have merged, the second to be launched before the first.
C8_Witness ==
    /\ Len(repos) >= 2
    /\ Merged(1) /\ Merged(2)
    /\ pc[2] = "done" /\ pc[1] # "done"
    /\ \E p \in Packages : Get(stats["dependencies"], p) = 2 \/ Get(allDeps, p) >= 2

\* The response carries no usable branch list.
NoBranches(resp) ==
    resp.err \/ resp.status # 200 \/ ~resp.json \/ Len(resp.branches) = 0

\* Positions of the branches no other branch is younger than.
Latest(bs) == { k \in 1..Len(bs) : \A j \in 1..Len(bs) : bs[j].date <= bs[k].date }

\* C9 as stated: the branch with the most recent author timestamp, and among
\* several with that timestamp the first in the order of the API response; an
\* empty list or a non-200 response gives an error and no branch.
C9_FirstSeenWins ==
    brOut # NotCalled =>
        IF NoBranches(brResp) THEN brOut = Failure
        ELSE /\ brOut.ok
             /\ \E k \in Latest(brResp.branches) :
                  /\ \A j \in Latest(brResp.branches) : k <= j
                  /\ brOut.name = brResp.branches[k].name

\* C9 amended: a branch with the most recent author timestamp; which of several
\* with that timestamp is not decided by the order of the API response; an
\* empty list, a non-200 response, a transport error or a body that is not a
\* branch array gives an error and no branch.
C9_LatestBranch ==
    brOut # NotCalled =>
        IF NoBranches(brResp) THEN brOut = Failure
        ELSE /\ brOut.ok
             /\ \E k \in Latest(brResp.branches) : brOut.name = brResp.branches[k].name

\* Three branches, the second the youngest: it is the one returned.
C9_Witness ==
    /\ brOut.ok
    /\ Len(brResp.branches) = 3
    /\ brResp.branches[1].date < brResp.branches[2].date
    /\ brResp.branches[3].date < brResp.branches[2].date
    /\ brOut.name = brResp.branches[2].name

\* C10: report filtering.  In each section a package is in the report exactly
\* when its counter is at least minUsage, and the reported count is the counter.
C10_Filter ==
    (variant = "ext" /\ mainpc \in {"write", "exit"} /\ Returned) =>
        \A s \in Sections :
            /\ DOMAIN finalStats[s] \subseteq DOMAIN stats[s]
            /\ \A p \in DOMAIN stats[s] :
                 /\ p \in DOMAIN finalStats[s] <=> stats[s][p] >= minUsage
                 /\ p \in DOMAIN finalStats[s] => finalStats[s][p].count = stats[s][p]

\* A section with a package at the threshold, kept, and one below it, dropped.
C10_Witness ==
    /\ variant = "ext"
    /\ mainpc = "exit"
    /\ minUsage = 2
    /\ \E s \in Sections : \E p, q \in DOMAIN stats[s] :
         /\ stats[s][p] = 2 /\ p \in DOMAIN finalStats[s]
         /\ stats[s][q] = 1 /\ q \notin DOMAIN finalStats[s]

\* C11: an entry that is not exactly two non-empty parts around one slash (no
\* slash, several slashes, "/name", "owner/") is rejected: its task logs the
\* entry as invalid, issues no ref-resolution or fetch request and never
\* merges, and the run goes on to its end all the same.
C11_MalformedRejected ==
    \A i \in Tasks :
        ~WellFormed(repos[i]) =>
            /\ calls[i] = <<>>
            /\ pc[i] \notin {"branch", "pubspec", "parse", "contents", "getcontent",
                              "extract", "lock", "merge", "unlock", "sleep"}
            /\ pc[i] \in {"release", "wgdone", "done"} => logged[i] = "invalid"

\* C12: a configuration error (a required flag missing, no GITHUB_TOKEN, a
\* repos file that cannot be read) is fatal: no task is launched, no request
\* is issued, and the process ends with a non-zero exit status.
C12_ConfigErrorFatal ==
    config \in ConfigErrors =>
        /\ Launched = {}
        /\ \A i \in Tasks : calls[i] = <<>>
        /\ mainpc \in {"config", "exit"}
        /\ mainpc = "exit" => exitCode # 0

\* The decoder of the running program returns no error for the document.
Parsed(doc) ==
    ~Unmarshal(doc, IF variant = "ext" THEN Sections ELSE MinFields).err

\* C13: the merge step of a task whose manifest parsed is not an error and
\* changes, in each section, exactly the counts of the keys the manifest
\* declares in that section, each by one: a section that is absent or null
\* leaves its counter untouched while the keys of the other sections are
\* counted, and no key moves a counter of a section it is not declared in.
\* (In part_000 the two sections feed the one flat map.)
C13_SectionFrame ==
    [][ \A i \in Tasks :
          (pc[i] = "merge" /\ pc'[i] = "unlock" /\ Parsed(content[i][1])) =>
              LET doc == content[i][1]
              IN  /\ logged'[i] = ""
                  /\ variant = "ext" =>
                       \A s \in Sections :
                         /\ doc[s].kind \in {"absent", "null"} => stats'[s] = stats[s]
                         /\ \A p \in Packages :
                              Get(stats'[s], p) =
                                  Get(stats[s], p) + IF Declares(doc, s, p) THEN 1 ELSE 0
                  /\ variant = "min" =>
                       \A p \in Packages :
                           Get(allDeps', p) =
                               Get(allDeps, p)
                                 + Cardinality({ s \in MinFields : Declares(doc, s, p) })
      ]_vars

\* A task has merged a manifest that parsed, one of whose sections is absent or
\* null and another a mapping: the first counter is empty, the second is not.
C13_Witness ==
    \E i \in Tasks : \E s, t \in Sections :
        /\ variant = "ext"
        /\ Merged(i)
        /\ Parsed(content[i][1])
        /\ content[i][1][s].kind \in {"absent", "null"}
        /\ content[i][1][t].kind = "map"
        /\ stats[s] = EmptyMap
        /\ stats[t] # EmptyMap

\* Between mu.Lock() and mu.Unlock().
InMerge(i) == pc[i] \in {"merge", "unlock"}

\* C14: the lock is held only during the merge.  At most one task is between
\* Lock and Unlock, and it is the holder of the lock; a task that resolves a
\* ref, fetches, parses, sleeps or waits holds no lock; and every step that
\* changes a counter map is taken by the task holding the lock.
C14_LockOnlyDuringMerge ==
    /\ [](/\ Cardinality({ i \in Tasks : InMerge(i) }) <= 1
          /\ mu \in Tasks \cup {0}
          /\ \A i \in Tasks : mu = i <=> InMerge(i))
    /\ [][ counters' # counters =>
             /\ mu \in Tasks
             /\ pc[mu] = "merge"
             /\ pc' = [pc EXCEPT ![mu] = "unlock"]
             /\ mu' = mu ]_vars

\* One task is inside the merge section, the other has parsed its manifest and
\* waits for the lock.
C14_Witness ==
    /\ Len(repos) >= 2
    /\ \E i, j \in Tasks :
         /\ pc[i] = "merge"
         /\ mu = i
         /\ pc[j] = "lock"

\* C15: with a pool of at least one slot, every launched task runs to its end
\* whatever happens to the others, and the aggregator returns once all have,
\* with no slot held.
C15_Termination ==
    /\ (mainpc \in {"loop", "wait"} /\ limit >= 1)
           ~> (Returned /\ sem = 0 /\ \A i \in Tasks : pc[i] = "done")
    /\ \A i \in 1..MaxRepos :
           (i \in Tasks /\ pc[i] # "none" /\ limit >= 1) ~> (i \in Tasks /\ pc[i] = "done")

\* The run is over with every slot back in a pool of one: a task failed, its
\* sibling, launched after it, merged.
C15_Witness ==
    /\ limit = 1
    /\ mainpc = "exit"
    /\ Returned
    /\ sem = 0
    /\ \A i \in Tasks : pc[i] = "done"
    /\ \E i, j \in Tasks : i < j /\ logged[i] # "" /\ Merged(j)

\* The requests a task that went through all its steps has issued, in order.
AllCalls(i) ==
    LET r == splitRepo(repos[i])
    IN  IF variant = "ext"
        THEN << Request("branches", r, ""), Request("contents", r, branch[i]) >>
        ELSE << Request("contents", r, "") >>

\* The task has taken its lock step.
Locked(i) == pc[i] \in {"merge", "unlock"} \/ Merged(i)

\* C16: the steps of a task come in the order validate, resolve ref
\* (cmd/main.go only), fetch, parse, lock, increment, unlock, and a step is taken
\* only if every earlier step of the task succeeded: requests only for a valid
\* entry, the fetch only with the ref the resolution returned, the parse only of
\* a fetched manifest, the lock and the merge only after a parse without error;
\* a task merges once, each declared key of each section counting one.
C16_StepOrder ==
    /\ \A i \in Tasks :
         /\ calls[i] # <<>> => splitRepo(repos[i]).ok
         /\ calls[i] = SubSeq(AllCalls(i), 1, Len(calls[i]))
         /\ (variant = "ext" /\ Len(calls[i]) = 2) => branch[i] # ""
         /\ content[i] # <<>> => calls[i] = AllCalls(i)
         /\ pc[i] \in {"parse", "getcontent", "extract", "lock"} \/ Locked(i)
                => content[i] # <<>>
         /\ pc[i] = "lock" \/ Locked(i) => Parsed(content[i][1])
    /\ \A s \in Sections : \A p \in Packages :
         variant = "ext" =>
             Get(stats[s], p) =
                 Cardinality({ i \in Tasks : Merged(i) /\ p \in Keys(content[i][1], s) })
    /\ \A p \in Packages :
         variant = "min" =>
             Get(allDeps, p) =
                 Cardinality({ <<i, s>> \in Tasks \X MinFields :
                                  Merged(i) /\ p \in Keys(content[i][1], s) })

\* The tasks that have completed their merge step.
MergedTasks == { i \in Tasks : Merged(i) }

\* C17: every counter map starts empty, holds only counts of at least one, no
\* count ever decreases, and no count exceeds the number of tasks that have
\* completed their merge step.
C17_CounterBounds ==
    /\ [](/\ mainpc = "config" => stats = EmptyStats /\ allDeps = EmptyMap
          /\ \A s \in Sections : \A p \in DOMAIN stats[s] :
               /\ stats[s][p] >= 1
               /\ stats[s][p] <= Cardinality(MergedTasks)
          /\ \A p \in DOMAIN allDeps :
               /\ allDeps[p] >= 1
               /\ allDeps[p] <= Cardinality(MergedTasks))
    /\ [][ /\ \A s \in Sections : \A p \in Packages :
                Get(stats'[s], p) >= Get(stats[s], p)
           /\ \A p \in Packages : Get(allDeps', p) >= Get(allDeps, p) ]_vars

\* C18: part_000 with --limit 0 and a list that is not empty.  The channel has
\* no buffer and nobody receives from it before sending, so no task gets past
\* its send: no slot is ever held, no request issued, no counter written, and
\* collectDependencies never returns, so nothing is written either.
C18_ZeroLimitBlocks ==
    (variant = "min" /\ limit = 0 /\ Len(repos) >= 1) =>
        /\ Holders = {}
        /\ sem = 0
        /\ \A i \in Tasks : pc[i] \in {"none", "acquire"} /\ calls[i] = <<>>
        /\ allDeps = EmptyMap
        /\ wg = Cardinality(Launched)
        /\ mainpc \in {"config", "loop", "wait", "exit"}
        /\ mainpc = "exit" => config # "ok" /\ Launched = {}
        /\ outFile = <<>>

\* Every task is launched and stands at its send, the caller stands at
\* wg.Wait(), and no step is possible.
C18_Witness ==
    /\ variant = "min"
    /\ limit = 0
    /\ Len(repos) >= 2
    /\ mainpc = "wait"
    /\ wg = Len(repos)
    /\ \A i \in Tasks : pc[i] = "acquire"
    /\ ~ENABLED Next
====
